---- MODULE Spec2Model ----
(***************************************************************************)
(* A model of ckanext-discovery's search-suggestion store                  *)
(* (plugins/search_suggestions/model.py) and of the similar-datasets       *)
(* finder that tests/plugins/test_similar_datasets.py exercises.           *)
(*                                                                         *)
(* Texts are sequences of words.  A search term is a sequence of the       *)
(* tokens PostgreSQL's to_tsquery lexes from it: words and the operator    *)
(* "!"; two adjacent words stand for a term with whitespace in it.         *)
(* Relevance ranks are ts_rank's values in units of                        *)
(* 0.1 / (1.64493406685 * 144 * 12), which keeps them integers and keeps  *)
(* their order.                                                            *)
(***************************************************************************)
EXTENDS Integers, Sequences, FiniteSets, TLC

\* ------------------------------------------------------------- bounds
MaxRows == 3
MaxTerms == 2
MaxItems == 3

\* ------------------------------------------------------------- inputs
Words == {"cat", "cats", "dog", "the"}

Texts == {<<"the", "cat">>, <<"cats", "dog">>, <<"dog", "dog">>}

TermChoices == {<<"cat">>, <<"dog">>, <<"the">>, <<"!", "cat">>, <<"cat", "dog">>}

Limits == {-1, 0, 1, 10}

MinScores == {0, 1728}

\* The values of the language option: not set, or set to "simple".
Unset == "unset"

ConfigValues == {Unset, "simple"}

RECURSIVE SeqsUpTo(_, _)
SeqsUpTo(S, n) ==
    IF n = 0 THEN {<<>>}
    ELSE LET shorter == SeqsUpTo(S, n - 1)
         IN  shorter \cup {Append(s, x) : s \in {t \in shorter : Len(t) = n - 1}, x \in S}

TermLists == SeqsUpTo(TermChoices, MaxTerms)

\* ------------------------------------------------------------- state
VARIABLES
    config,       \* the setting ckanext.discovery.search_suggestions.language
    tableExists,  \* whether the table discovery_searchquery exists
    rows,         \* the table's rows, in insertion order: [id, q]
    nextId,       \* the next value of the primary key's sequence
    indexes,      \* the text-search indexes on the table: [name, language]
    call,         \* the call that has just returned, or NoCall
    catalog,      \* the catalog's packages, in creation order
    similar       \* the get_similar_datasets call that has just returned

vars == <<config, tableExists, rows, nextId, indexes, call, catalog, similar>>

\* {table}_ts_index, for the table discovery_searchquery
IndexName == "discovery_searchquery_ts_index"

\* A returned call: its arguments, the number of statements it sent to the
\* storage, how it ended, and for suggest the rows of the ordered subquery
\* ("sorted": q, rank, count) and the list returned.
NoCall ==
    [op |-> "none", q |-> <<>>, terms |-> <<>>, limit |-> 0, min_score |-> 0,
     language |-> "", sent |-> 0, outcome |-> "none", sorted |-> <<>>,
     result |-> <<>>]

\* ------------------------------------------------- the locale resolver
_get_language == IF config = Unset THEN "english" ELSE config

\* ------------------------------------------------- PostgreSQL text search
StopWords(language) == IF language = "english" THEN {"the"} ELSE {}

Stem(language, word) ==
    IF language = "english" /\ word = "cats" THEN "cat" ELSE word

\* to_tsvector(language, q): the lexemes of q, one entry per position.
to_tsvector(language, q) ==
    LET kept == SelectSeq(q, LAMBDA w : w \notin StopWords(language))
    IN  [i \in 1..Len(kept) |-> Stem(language, kept[i])]

Occurrences(vector, lexeme) == Cardinality({i \in 1..Len(vector) : vector[i] = lexeme})

\* ' | '.join(terms), as the token sequence to_tsquery lexes from it.
RECURSIVE JoinTerms(_)
JoinTerms(terms) ==
    IF Len(terms) = 0 THEN <<>>
    ELSE IF Len(terms) = 1 THEN terms[1]
    ELSE terms[1] \o <<"|">> \o JoinTerms(Tail(terms))

\* The operands of a token sequence between two "|": <<>> when it is empty.
RECURSIVE SplitOr(_)
SplitOr(tokens) ==
    IF \A i \in 1..Len(tokens) : tokens[i] # "|" THEN <<tokens>>
    ELSE LET k == CHOOSE i \in 1..Len(tokens) :
                      /\ tokens[i] = "|"
                      /\ \A j \in 1..(i - 1) : tokens[j] # "|"
         IN  <<SubSeq(tokens, 1, k - 1)>> \o SplitOr(SubSeq(tokens, k + 1, Len(tokens)))

\* An operand is any number of "!" and then one word.
WellFormedOperand(tokens) ==
    /\ Len(tokens) >= 1
    /\ tokens[Len(tokens)] \in Words
    /\ \A i \in 1..(Len(tokens) - 1) : tokens[i] = "!"

SyntaxError == "syntax error in tsquery"

\* to_tsquery(language, text): whether the text is rejected with a syntax
\* error, and otherwise the normalized query as the sequence of its OR-ed
\* operands [neg, lexeme], stop words removed.
to_tsquery(language, tokens) ==
    LET parts == IF Len(tokens) = 0 THEN <<>> ELSE SplitOr(tokens)
        kept == SelectSeq(parts, LAMBDA p : p[Len(p)] \notin StopWords(language))
    IN  IF \E i \in 1..Len(parts) : ~WellFormedOperand(parts[i])
        THEN [error |-> TRUE, operands |-> <<>>]
        ELSE [error |-> FALSE,
              operands |-> [i \in 1..Len(kept) |->
                               [neg |-> (Len(kept[i]) - 1) % 2 = 1,
                                lexeme |-> Stem(language, kept[i][Len(kept[i])])]]]

\* vector @@ query
Matches(vector, query) ==
    \E i \in 1..Len(query) :
        IF query[i].neg
        THEN Occurrences(vector, query[i].lexeme) = 0
        ELSE Occurrences(vector, query[i].lexeme) > 0

\* sum of 1/j^2 for j in 1..n, times 144
RECURSIVE HarmonicSq(_)
HarmonicSq(n) == IF n = 0 THEN 0 ELSE HarmonicSq(n - 1) + (144 \div (n * n))

\* The sum, over the operands found in the vector, of the weighted sum over
\* the operand's positions (all of weight D).
RECURSIVE RankSum(_, _)
RankSum(vector, operands) ==
    IF operands = {} THEN 0
    ELSE LET x == CHOOSE y \in operands : TRUE
         IN  HarmonicSq(Occurrences(vector, x)) + RankSum(vector, operands \ {x})

\* ts_rank(vector, query) with the default weights and normalization, for a
\* query whose root is not an AND: the sum over the distinct operands,
\* divided by their number.
ts_rank(vector, query) ==
    LET operands == {query[i].lexeme : i \in 1..Len(query)}
    IN  IF Len(vector) = 0 \/ operands = {} THEN 0
        ELSE (RankSum(vector, operands) * 12) \div Cardinality(operands)

\* ------------------------------------------------- SearchQuery.create
create(q) ==
    /\ call.op = "none"
    /\ Len(rows) < MaxRows
    /\ IF tableExists
       THEN /\ rows' = Append(rows, [id |-> nextId, q |-> q])
            /\ nextId' = nextId + 1
            /\ call' = [NoCall EXCEPT !.op = "create", !.q = q, !.sent = 1,
                                      !.outcome = "ok"]
       ELSE /\ call' = [NoCall EXCEPT !.op = "create", !.q = q, !.sent = 1,
                                      !.outcome = "undefined table"]
            /\ UNCHANGED <<rows, nextId>>
    /\ UNCHANGED <<config, tableExists, indexes, catalog, similar>>

\* ------------------------------------------------- SearchQuery.suggest
\* COUNT(DISTINCT q) in place of COUNT(q)
CountDistinct(q) == Cardinality({rows[i].q : i \in {j \in 1..Len(rows) : rows[j].q = q}})

\* COUNT(q) of the group of q
CountOf(q) == Cardinality({i \in 1..Len(rows) : rows[i].q = q})

\* The inner subquery "match": one row per distinct q that matches.
MatchRows(language, query) ==
    {[q |-> t, rank |-> ts_rank(to_tsvector(language, t), query), count |-> CountOf(t)] :
        t \in {rows[i].q : i \in {j \in 1..Len(rows) :
                     Matches(to_tsvector(language, rows[j].q), query)}}}

\* ORDER BY rank DESC alone
OrderByRankOnly(a, b) == a.rank >= b.rank

\* ORDER BY rank DESC, count DESC: a may come before b
OrderBy(a, b) == a.rank > b.rank \/ (a.rank = b.rank /\ a.count >= b.count)

\* The orders the subquery "sorted" may deliver the rows of S in; rows equal
\* in rank and count come in either order.  The outer query scans the
\* subquery in this order.
Sorted(S) ==
    {s \in [1..Cardinality(S) -> S] :
        /\ \A i, j \in 1..Cardinality(S) : i # j => s[i] # s[j]
        /\ \A i, j \in 1..Cardinality(S) : i < j => OrderBy(s[i], s[j])}

\* WHERE rank > :min_rank
WhereAbove(s, min_rank) == SelectSeq(s, LAMBDA r : r.rank > min_rank)

\* WHERE rank >= :min_rank
Where(s, min_rank) == SelectSeq(s, LAMBDA r : r.rank >= min_rank)

\* LIMIT :limit + 1
LimitPlusOne(s, limit) == SubSeq(s, 1, IF limit + 1 < Len(s) THEN limit + 1 ELSE Len(s))

\* LIMIT :limit
Limit(s, limit) == SubSeq(s, 1, IF limit < Len(s) THEN limit ELSE Len(s))

suggest(terms, limit, min_score) ==
    /\ call.op = "none"
    /\ LET language == _get_language
           parsed == to_tsquery(language, JoinTerms(terms))
           query == parsed.operands
           made == [NoCall EXCEPT !.op = "suggest", !.terms = terms, !.limit = limit,
                                  !.min_score = min_score, !.language = language,
                                  !.sent = 1]
       IN  IF ~tableExists
           THEN call' = [made EXCEPT !.outcome = "undefined table"]
           ELSE IF parsed.error
           THEN call' = [made EXCEPT !.outcome = SyntaxError]
           ELSE IF limit < 0
           THEN call' = [made EXCEPT !.outcome = "LIMIT must not be negative"]
           ELSE \E s \in Sorted(MatchRows(language, query)) :
                    LET results == Limit(Where(s, min_score), limit)
                    IN  call' = [made EXCEPT !.outcome = "ok", !.sorted = s,
                                     !.result = [i \in 1..Len(results) |-> results[i].q]]
    /\ UNCHANGED <<config, tableExists, rows, nextId, indexes, catalog, similar>>

\* ------------------------------------------------- create_tables
\* CREATE INDEX without the DROP INDEX before it
AddIndex(existing, language) ==
    existing \cup {[name |-> IndexName, language |-> language]}

\* DROP INDEX IF EXISTS {index}; CREATE INDEX {index} ... (to_tsvector(:language, q))
RebuildIndex(existing, language) ==
    {i \in existing : i.name # IndexName} \cup {[name |-> IndexName, language |-> language]}

create_tables ==
    /\ call.op = "none"
    /\ tableExists' = TRUE
    /\ indexes' = RebuildIndex(indexes, _get_language)
    /\ call' = [NoCall EXCEPT !.op = "create_tables", !.language = _get_language,
                              !.sent = 2, !.outcome = "ok"]
    /\ UNCHANGED <<config, rows, nextId, catalog, similar>>

\* ------------------------------------------------- the environment
\* The site's configuration sets, changes or removes the language option.
SetLanguage(value) ==
    /\ call.op = "none"
    /\ value # config
    /\ config' = value
    /\ UNCHANGED <<tableExists, rows, nextId, indexes, call, catalog, similar>>

\* The caller takes the returned value.
Return ==
    /\ call.op # "none"
    /\ call' = NoCall
    /\ UNCHANGED <<config, tableExists, rows, nextId, indexes, catalog, similar>>

\* ------------------------------------------------- get_similar_datasets
\* A package of the catalog: the site it was indexed for, its type, state and
\* visibility, and the words of its text.
ReferenceText == {"cat", "dog", "wolf"}

Public ==
    [site |-> "default", type |-> "dataset", state |-> "active", private |-> FALSE,
     text |-> ReferenceText]

\* The packages the catalog may hold: public active datasets of this site
\* with various texts, and packages with the reference text that differ in
\* the site, the type, the state or the visibility.
Packages ==
    {[Public EXCEPT !.text = t] : t \in {ReferenceText, {"cat"}, {"dolphin"}}}
    \cup {[Public EXCEPT !.site = "a-different-instance"],
          [Public EXCEPT !.type = "not-a-dataset"],
          [Public EXCEPT !.state = "deleted"],
          [Public EXCEPT !.state = "draft"],
          [Public EXCEPT !.private = TRUE]}

DefaultMaxNum == 5

MaxNums == {0, 1, 2, DefaultMaxNum}

NoSimilar == [op |-> "none", id |-> 0, max_num |-> 0, found |-> <<>>, result |-> <<>>]

\* The relevance of a candidate's text to the reference text.
Similarity(a, b) == Cardinality(a \cap b)

\* The post-filters without the one on visibility
EligibleThoughPrivate(reference, candidate) ==
    /\ candidate.site = reference.site
    /\ candidate.type = "dataset"
    /\ candidate.state = "active"

\* The post-filters: same site, a dataset, active, public.
Eligible(reference, candidate) ==
    /\ candidate.site = reference.site
    /\ candidate.type = "dataset"
    /\ candidate.state = "active"
    /\ ~candidate.private

\* The ids of the other packages that are similar to the reference and pass
\* the filters.
Candidates(id) ==
    {c \in 1..Len(catalog) :
        /\ c # id
        /\ Similarity(catalog[id].text, catalog[c].text) > 0
        /\ Eligible(catalog[id], catalog[c])}

\* The orders, by descending similarity to the reference, of the ids in S.
BySimilarity(id, S) ==
    {s \in [1..Cardinality(S) -> S] :
        /\ \A i, j \in 1..Cardinality(S) : i # j => s[i] # s[j]
        /\ \A i, j \in 1..Cardinality(S) :
               i < j => Similarity(catalog[id].text, catalog[s[i]].text)
                            >= Similarity(catalog[id].text, catalog[s[j]].text)}

\* max_num of them from the back
LastN(s, max_num) ==
    SubSeq(s, (IF max_num < Len(s) THEN Len(s) - max_num ELSE 0) + 1, Len(s))

\* At most max_num of them, from the front.
FirstN(s, max_num) == SubSeq(s, 1, IF max_num < Len(s) THEN max_num ELSE Len(s))

get_similar_datasets(id, max_num) ==
    /\ similar.op = "none"
    /\ IF id \notin 1..Len(catalog)
       THEN similar' = [NoSimilar EXCEPT !.op = "get_similar_datasets", !.id = id,
                                         !.max_num = max_num]
       ELSE \E s \in BySimilarity(id, Candidates(id)) :
                similar' = [NoSimilar EXCEPT !.op = "get_similar_datasets", !.id = id,
                                             !.max_num = max_num, !.found = s,
                                             !.result = FirstN(s, max_num)]
    /\ UNCHANGED <<config, tableExists, rows, nextId, indexes, call, catalog>>

\* The catalog gets a package (factories.Dataset in the tests).
AddPackage(package) ==
    /\ similar.op = "none"
    /\ Len(catalog) < MaxItems
    /\ catalog' = Append(catalog, package)
    /\ UNCHANGED <<config, tableExists, rows, nextId, indexes, call, similar>>

\* The caller takes the returned list.
ReturnSimilar ==
    /\ similar.op # "none"
    /\ similar' = NoSimilar
    /\ UNCHANGED <<config, tableExists, rows, nextId, indexes, call, catalog>>

Init ==
    /\ config = Unset
    /\ tableExists = FALSE
    /\ rows = <<>>
    /\ nextId = 1
    /\ indexes = {}
    /\ call = NoCall
    /\ catalog = <<>>
    /\ similar = NoSimilar

\* A suggestion request: suggest with any of the arguments, once the
\* previous call has returned.
Request ==
    /\ call.op = "none"
    /\ \E terms \in TermLists, limit \in Limits, min_score \in MinScores :
           suggest(terms, limit, min_score)

Next ==
    \/ \E q \in Texts : create(q)
    \/ Request
    \/ create_tables
    \/ \E value \in ConfigValues : SetLanguage(value)
    \/ Return

Spec == Init /\ [][Next]_vars

SimilarNext ==
    \/ \E package \in Packages : AddPackage(package)
    \/ \E id \in 1..(Len(catalog) + 1), max_num \in MaxNums :
           get_similar_datasets(id, max_num)
    \/ ReturnSimilar

SimilarSpec == Init /\ [][SimilarNext]_vars

\* ------------------------------------------------- what the claims speak of
Returned == call.op = "suggest" /\ call.outcome = "ok"

StoredTexts == {rows[i].q : i \in 1..Len(rows)}

Occurs(text) == Cardinality({i \in 1..Len(rows) : rows[i].q = text})

\* The query of the returned call.
CallQuery == to_tsquery(call.language, JoinTerms(call.terms)).operands

\* The relevance rank of every stored text against the terms of the returned
\* call.
Ranks ==
    LET query == CallQuery
    IN  [t \in StoredTexts |-> ts_rank(to_tsvector(call.language, t), query)]

\* The text's lexemes include the lexeme of a word of one of the call's terms.
SharesATerm(text) ==
    \E k \in 1..Len(call.terms) : \E n \in 1..Len(call.terms[k]) :
        LET word == call.terms[k][n]
        IN  /\ word \in Words
            /\ word \notin StopWords(call.language)
            /\ Occurrences(to_tsvector(call.language, text), Stem(call.language, word)) > 0

ResultSet == {call.result[i] : i \in 1..Len(call.result)}

\* The texts of the ordered subquery's rows with a rank of min_score or more.
Thresholded ==
    LET rank == Ranks
        keep == SelectSeq(call.sorted, LAMBDA r : rank[r.q] >= call.min_score)
    IN  [i \in 1..Len(keep) |-> keep[i].q]

\* C1: the list suggest returns is in descending order of relevance rank,
\* and two returned texts of equal rank are in descending order of their
\* occurrence count.
C1_RankThenCountOrder ==
    Returned =>
        LET rank == Ranks
        IN  \A i, j \in 1..Len(call.result) :
                i < j =>
                    LET a == call.result[i]
                        b == call.result[j]
                    IN  \/ rank[a] > rank[b]
                        \/ rank[a] = rank[b] /\ Occurs(a) >= Occurs(b)

\* Two texts of equal rank and different counts were returned.
C1_Witness ==
    /\ Returned
    /\ Len(call.result) = 2
    /\ Ranks[call.result[1]] = Ranks[call.result[2]]
    /\ Occurs(call.result[1]) > Occurs(call.result[2])

\* C2: suggest(terms, limit=N) with N >= 0 returns the first min(N, k)
\* entries of the ranked and thresholded list of k matches, and so at most
\* N entries.
C2_LimitIsPrefix ==
    Returned =>
        LET kept == Thresholded
        IN  /\ Len(call.result) <= call.limit
            /\ Len(call.result) = (IF call.limit < Len(kept) THEN call.limit ELSE Len(kept))
            /\ \A i \in 1..Len(call.result) : call.result[i] = kept[i]

\* limit = 1 cut a list of two or more matches down to its first entry.
C2_Witness ==
    /\ Returned
    /\ call.limit = 1
    /\ Len(Thresholded) >= 2
    /\ call.result = <<Thresholded[1]>>

\* C3: suggest(terms, min_score=M) returns no text whose rank is below M, and
\* leaves out a matching text of rank M or more only when the limit is
\* reached.
C3_MinScore ==
    Returned =>
        LET rank == Ranks
            query == CallQuery
            results == ResultSet
        IN  /\ \A t \in results : rank[t] >= call.min_score
            /\ \A t \in StoredTexts :
                   /\ Matches(to_tsvector(call.language, t), query)
                   /\ rank[t] >= call.min_score
                   => t \in results \/ Len(call.result) = call.limit

\* A threshold above 0 dropped a match of lower rank and kept one whose rank
\* equals the threshold.
C3_Witness ==
    /\ Returned
    /\ call.min_score > 0
    /\ \E t \in ResultSet : Ranks[t] = call.min_score
    /\ \E i \in 1..Len(call.sorted) :
           /\ call.sorted[i].rank < call.min_score
           /\ call.sorted[i].q \notin ResultSet

\* C4: every string suggest returns is the text of a stored record whose
\* tokenized text contains one of the supplied terms, and a store with no
\* such record yields the empty list.
C4_ResultsShareATerm ==
    Returned =>
        /\ \A t \in ResultSet : t \in StoredTexts /\ SharesATerm(t)
        /\ (\A t \in StoredTexts : ~SharesATerm(t)) => call.result = <<>>

\* C7: the executed match condition is the OR of the supplied terms taken
\* as literal tokens: no term list makes the query fail with a syntax
\* error, and the rows matched are those that contain one of the terms.
C7_TermsAreLiteral ==
    call.op = "suggest" /\ call.outcome # "undefined table" /\ call.limit >= 0 =>
        /\ call.outcome = "ok"
        /\ {call.sorted[i].q : i \in 1..Len(call.sorted)} =
               {t \in StoredTexts : SharesATerm(t)}

\* C8: suggest with a negative limit is rejected with a validation error
\* before any statement is sent to the storage.
C8_NegativeLimitRejectedFirst ==
    call.op = "suggest" /\ tableExists /\ call.limit < 0 =>
        /\ call.sent = 0
        /\ call.outcome = "validation error"

\* C5: a create that succeeds appends one record with the given text and
\* an id no earlier record has, no step changes or removes an earlier
\* record, and suggest counts every record of a text, duplicates included.
C5_AppendOnly ==
    [][/\ \A i \in 1..Len(rows) : i <= Len(rows') /\ rows'[i] = rows[i]
       /\ IF call'.op = "create" /\ call'.outcome = "ok" /\ call.op = "none"
          THEN /\ Len(rows') = Len(rows) + 1
               /\ rows'[Len(rows')].q = call'.q
               /\ \A i \in 1..Len(rows) : rows[i].id # rows'[Len(rows')].id
          ELSE rows' = rows
       /\ call'.op = "suggest" /\ call'.outcome = "ok" =>
              \A i \in 1..Len(call'.sorted) :
                  call'.sorted[i].count =
                      Cardinality({j \in 1..Len(rows') : rows'[j].q = call'.sorted[i].q})
      ]_vars

\* The same text was logged twice, and suggest counted both records.
C5_Witness ==
    /\ Returned
    /\ \E i \in 1..Len(call.sorted) :
           call.sorted[i].count = 2 /\ call.sorted[i].q \in ResultSet
    /\ \E i, j \in 1..Len(rows) : i # j /\ rows[i].q = rows[j].q /\ rows[i].id # rows[j].id

\* C6: every create_tables call leaves the records as they are and leaves
\* exactly one text-search index, built with the language resolved at the
\* call; a call made right after another one changes nothing.
C6_CreateTablesIdempotent ==
    [][call'.op = "create_tables" /\ call.op = "none" =>
          /\ rows' = rows
          /\ tableExists'
          /\ Cardinality(indexes') = 1
          /\ \A i \in indexes' : i.language = _get_language
          /\ (tableExists /\ Cardinality(indexes) = 1
                 /\ \A i \in indexes : i.language = _get_language)
              => indexes' = indexes
      ]_vars

\* create_tables has run on a store that holds records and whose index was
\* built for another language.
C6_Witness ==
    /\ call.op = "create_tables"
    /\ Len(rows) >= 2
    /\ indexes = {[name |-> IndexName, language |-> "simple"]}

\* ------------------------------------------------- similar datasets
Found == similar.op = "get_similar_datasets"

Ineligible(reference, package) ==
    \/ package.site # reference.site
    \/ package.type # "dataset"
    \/ package.state # "active"
    \/ package.private

\* C9: the result of get_similar_datasets holds no package of another site
\* than the reference, of a type other than dataset, not active, or
\* private, whatever its text.
C9_FiltersHold ==
    Found /\ similar.id \in 1..Len(catalog) =>
        \A i \in 1..Len(similar.result) :
            /\ similar.result[i] \in 1..Len(catalog)
            /\ ~Ineligible(catalog[similar.id], catalog[similar.result[i]])

\* A package with the reference's own text, yet not eligible, was in the
\* catalog when a non-empty list was returned.
C9_Witness ==
    /\ Found
    /\ similar.id \in 1..Len(catalog)
    /\ Len(similar.result) >= 1
    /\ \E c \in 1..Len(catalog) :
           /\ c # similar.id
           /\ catalog[c].text = catalog[similar.id].text
           /\ Ineligible(catalog[similar.id], catalog[c])

\* The other packages that pass the filters and share text with the reference.
EligibleSimilar ==
    {c \in 1..Len(catalog) :
        /\ c # similar.id
        /\ ~Ineligible(catalog[similar.id], catalog[c])
        /\ catalog[similar.id].text \cap catalog[c].text # {}}

\* C10: get_similar_datasets(id, max_num) returns min(max_num, number of
\* eligible similar packages) packages in descending order of similarity,
\* and the empty list when max_num is 0 or no package has the id.
C10_CountAndOrder ==
    Found =>
        IF similar.id \notin 1..Len(catalog) \/ similar.max_num = 0
        THEN similar.result = <<>>
        ELSE /\ Len(similar.result) =
                    (IF similar.max_num < Cardinality(EligibleSimilar)
                     THEN similar.max_num ELSE Cardinality(EligibleSimilar))
             /\ \A i \in 1..Len(similar.result) : similar.result[i] \in EligibleSimilar
             /\ \A i, j \in 1..Len(similar.result) : i # j => similar.result[i] # similar.result[j]
             /\ \A i \in 1..Len(similar.result) : \A c \in EligibleSimilar :
                    \/ \E j \in 1..Len(similar.result) : similar.result[j] = c /\ j <= i
                    \/ Similarity(catalog[similar.id].text, catalog[similar.result[i]].text)
                           >= Similarity(catalog[similar.id].text, catalog[c].text)

\* max_num = 1 cut two eligible packages of different similarity down to
\* the more similar one.
C10_Witness ==
    /\ Found
    /\ similar.id \in 1..Len(catalog)
    /\ similar.max_num = 1
    /\ Cardinality(EligibleSimilar) = 2
    /\ Len(similar.result) = 1
    /\ \E c \in EligibleSimilar :
           Similarity(catalog[similar.id].text, catalog[c].text)
               < Similarity(catalog[similar.id].text, catalog[similar.result[1]].text)

====
